---- MODULE Spec2Model ----
(***************************************************************************)
(* Model of split-lines.py: split_chinked_lines reads a text file in       *)
(* chunks of at most chunk_size characters, copies each decorated chunk to *)
(* the clipboard, sleeps, and carries the trailing partial line over to    *)
(* the next chunk.                                                         *)
(*                                                                         *)
(* Strings are sequences of one-character strings.  The program state is   *)
(* file, chunk_size, pos (the file object's read position), prepend,       *)
(* chunk, nreq (the argument of the last f.read), clipboard and pc.        *)
(* The observers sink, copies, reads and sinceCopy record what the         *)
(* clipboard sink and a clock see; sink, copies and reads stop growing at  *)
(* MaxSink so that a run that never terminates has finitely many states.   *)
(***************************************************************************)
EXTENDS Integers, Sequences, FiniteSets, TLC

VARIABLES file, chunk_size, pos, prepend, chunk, nreq, clipboard, pc,
          sink, copies, reads, sinceCopy

vars == <<file, chunk_size, pos, prepend, chunk, nreq, clipboard, pc,
          sink, copies, reads, sinceCopy>>

\* ---------------------------------------------------------------- bounds
MaxLen == 6
MaxChunk == 4
\* A run makes at most Len(file) hand-offs that read a new character; every
\* later hand-off repeats the one before it, so MaxLen + 2 entries of the
\* sink show every distinct hand-off and the first repetitions.
MaxSink == MaxLen + 2

\* ------------------------------------------------------------- constants
NL == "\n"
Delay == 3
\* BT stands for the backquote character (U+0060) of the decoration
BT == "BT"
Prefix == <<BT, BT, BT, "a", "n", "s", "i", " ">>
Suffix == <<BT, BT, BT>>

\* the characters of the generated files, and the file of the worked scenario
Chars == {"a", "b", NL}
ScenarioFile == <<"a", NL, "b", NL, "c", NL>>

RECURSIVE StringsOfLen(_)
StringsOfLen(n) ==
    IF n = 0 THEN {<<>>}
    ELSE {Append(s, c) : s \in StringsOfLen(n - 1), c \in Chars}

Files == UNION {StringsOfLen(n) : n \in 0..MaxLen} \cup {ScenarioFile}
ChunkSizes == 1..MaxChunk

Min(a, b) == IF a < b THEN a ELSE b

\* ------------------------------------------------------- pure operations
\* s[k:] for a 0-based k with 0 <= k
Slice(s, k) == SubSeq(s, k + 1, Len(s))

\* s.rfind(c): 0-based index of the last occurrence of c, -1 if none
RFind(s, c) ==
    LET hits == {i \in 1..Len(s) : s[i] = c}
    IN  IF hits = {} THEN -1
        ELSE (CHOOSE i \in hits : \A j \in hits : j <= i) - 1

\* variants of the carry: the slice starts at the newline instead of after it;
\* a chunk without a newline leaves no carry
CarryKeepsNewline(c) ==
    IF RFind(c, NL) = -1 THEN c ELSE Slice(c, RFind(c, NL))

CarryDropsLongLine(c) ==
    IF RFind(c, NL) = -1 THEN <<>> ELSE Slice(c, RFind(c, NL) + 1)

\* chunk[chunk.rfind(NL) + 1:]
Carry(c) == Slice(c, RFind(c, NL) + 1)

\* variant: a read returns at most one character
ReadCountShort(f, p, n) ==
    IF n < 0 THEN Len(f) - p ELSE Min(Min(n, 1), Len(f) - p)

\* number of characters f.read(n) returns at position p: everything that is
\* left when n is negative, otherwise at most n
ReadCount(f, p, n) ==
    IF n < 0 THEN Len(f) - p ELSE Min(n, Len(f) - p)

\* variant: every read starts again at the beginning of the file
FReadRewound(f, p, n) == SubSeq(f, 1, ReadCount(f, p, n))

\* the characters f.read(n) returns at position p
FRead(f, p, n) == SubSeq(f, p + 1, p + ReadCount(f, p, n))

\* variant: the carry is not subtracted from the size of the read
ReadSizeIgnoresCarry(cs, pre) == cs

\* the argument of f.read
ReadSize(cs, pre) == cs - Len(pre)

\* prepend + f.read(...)
MakeChunk(pre, got) == pre \o got

\* variant: the emptiness test never succeeds
NotChunkNever(c) == FALSE

\* not chunk: the empty string is falsy
NotChunk(c) == Len(c) = 0

\* the f-string: three backquotes, "ansi ", the chunk, three backquotes
Decorate(c) == Prefix \o c \o Suffix

\* ---------------------------------------------------------------- states
Init ==
    /\ file \in Files
    /\ chunk_size \in ChunkSizes
    /\ pos = 0
    /\ prepend = <<>>
    /\ chunk = <<>>
    /\ nreq = 0
    /\ clipboard = <<>>
    /\ pc = "open"
    /\ sink = <<>>
    /\ copies = 0
    /\ reads = 0
    /\ sinceCopy = 0

\* with open(file) as f: chunks = []; prepend = ""
Open ==
    /\ pc = "open"
    /\ pos' = 0
    /\ prepend' = <<>>
    /\ pc' = "read"
    /\ UNCHANGED <<file, chunk_size, chunk, nreq, clipboard,
                   sink, copies, reads, sinceCopy>>

\* chunk = prepend + f.read(chunk_size - len(prepend))
Read ==
    /\ pc = "read"
    /\ LET n == ReadSize(chunk_size, prepend)
           got == FRead(file, pos, n)
       IN  /\ nreq' = n
           /\ chunk' = MakeChunk(prepend, got)
           /\ pos' = pos + Len(got)
    /\ reads' = Min(reads + 1, MaxSink + 1)
    /\ pc' = "test"
    /\ UNCHANGED <<file, chunk_size, prepend, clipboard, sink, copies,
                   sinceCopy>>

\* if not chunk: break   (leaves the loop and the with block)
Break ==
    /\ pc = "test"
    /\ NotChunk(chunk)
    /\ pc' = "done"
    /\ UNCHANGED <<file, chunk_size, pos, prepend, chunk, nreq, clipboard,
                   sink, copies, reads, sinceCopy>>

\* pyperclip.copy(decorated chunk); print(...)
Copy ==
    /\ pc = "test"
    /\ ~NotChunk(chunk)
    /\ clipboard' = Decorate(chunk)
    /\ sink' = IF Len(sink) < MaxSink THEN Append(sink, Decorate(chunk))
               ELSE sink
    /\ copies' = Min(copies + 1, MaxSink)
    /\ sinceCopy' = 0
    /\ pc' = "sleep"
    /\ UNCHANGED <<file, chunk_size, pos, prepend, chunk, nreq, reads>>

\* variant: the pause is skipped
SleepSkipped ==
    /\ pc = "sleep"
    /\ pc' = "carry"
    /\ UNCHANGED <<file, chunk_size, pos, prepend, chunk, nreq, clipboard,
                   sink, copies, reads, sinceCopy>>

\* time.sleep(3)
Sleep ==
    /\ pc = "sleep"
    /\ sinceCopy' = sinceCopy + Delay
    /\ pc' = "carry"
    /\ UNCHANGED <<file, chunk_size, pos, prepend, chunk, nreq, clipboard,
                   sink, copies, reads>>

\* prepend = chunk[chunk.rfind(NL) + 1:]
SetPrepend ==
    /\ pc = "carry"
    /\ prepend' = Carry(chunk)
    /\ pc' = "read"
    /\ UNCHANGED <<file, chunk_size, pos, chunk, nreq, clipboard,
                   sink, copies, reads, sinceCopy>>

Next == Open \/ Read \/ Break \/ Copy \/ Sleep \/ SetPrepend

Spec == Init /\ [][Next]_vars

\* The program is sequential and blocking: whenever a step is possible it is
\* eventually taken.
FairSpec == Init /\ [][Next]_vars /\ WF_vars(Next)

\* ------------------------------------------------ vocabulary of the claims
\* the chunk inside a decorated text
Undecorate(t) == SubSeq(t, Len(Prefix) + 1, Len(t) - Len(Suffix))

\* the i-th undecorated chunk handed to the sink
Raw(i) == Undecorate(sink[i])

NoNewline(s) == \A i \in 1..Len(s) : s[i] # NL

\* s has no m consecutive characters without a newline
NoRun(s, m) ==
    ~\E i \in 1..(Len(s) - m + 1) : \A j \in i..(i + m - 1) : s[j] # NL

CeilDiv(a, b) == (a + b - 1) \div b

\* the carry that precedes the k-th chunk, computed from the chunk before it
CarryBefore(k) == IF k = 1 THEN <<>> ELSE Carry(Raw(k - 1))

\* the first k chunks, each without its leading carry-over, concatenated
RECURSIVE Recon(_)
Recon(k) ==
    IF k = 0 THEN <<>>
    ELSE Recon(k - 1) \o Slice(Raw(k), Len(CarryBefore(k)))

\* the number of characters handed over again as carry in the first k chunks
RECURSIVE Carried(_)
Carried(k) ==
    IF k = 0 THEN 0 ELSE Carried(k - 1) + Len(CarryBefore(k))

\* every line has fewer than chunk_size characters
ShortLines == NoRun(file, chunk_size)

\* the file ends with a newline and every line, newline included, is
\* shorter than chunk_size
FrequentNewlines ==
    /\ file # <<>>
    /\ file[Len(file)] = NL
    /\ NoRun(file, chunk_size - 1)

\* ------------------------------------------------------------------ claims

\* C1: for every file and every chunk_size >= 1 the loop eventually reaches
\* its terminal state, so only finitely many chunks are handed to the sink.
Terminates == <>(pc = "done")

\* C2: in every reachable state the undecorated chunk has at most chunk_size
\* characters, the carry has at most chunk_size characters, and the number
\* of characters requested from the file is never negative.
ChunkWithinSize ==
    /\ Len(chunk) <= chunk_size
    /\ Len(prepend) <= chunk_size
    /\ nreq >= 0
    /\ ReadSize(chunk_size, prepend) >= 0
    /\ \A i \in DOMAIN sink : Len(Raw(i)) <= chunk_size

\* a full chunk that begins with a carry has been handed over
FullChunkWithCarry ==
    /\ pc = "sleep"
    /\ Len(chunk) = chunk_size
    /\ Len(prepend) > 0
    /\ nreq < chunk_size

\* C3: the emitted chunks, each but the first without its leading
\* carry-over, concatenated in emission order are exactly the prefix of the
\* file consumed so far; after termination they are the whole file.
ReconstructsFile ==
    /\ pc # "test" => Recon(Len(sink)) = SubSeq(file, 1, pos)
    /\ pc = "done" => Recon(Len(sink)) = file

\* a run has terminated after three or more chunks, one of them with a carry
TerminatedWithCarry ==
    /\ pc = "done"
    /\ Len(sink) >= 3
    /\ Carried(Len(sink)) > 0

\* C4: for a non-empty file whose lines all have fewer than chunk_size
\* characters, once the chunk with the final remainder of the file has been
\* handed to the sink no further chunk is handed over.
FinalChunkOnce ==
    [][(file # <<>> /\ ShortLines /\ Recon(Len(sink)) = file)
          => copies' = copies]_vars

\* C5: whenever an emitted chunk ends with a newline the new carry is
\* empty; for the file a NL b NL c NL with chunk_size 4 the chunks handed to
\* the sink are a NL b NL and then c NL, the carry is empty after each, and
\* the loop terminates on the third read.
ScenarioChunks ==
    <<Decorate(<<"a", NL, "b", NL>>), Decorate(<<"c", NL>>)>>

NewlineEmptiesCarry ==
    /\ (pc = "read" /\ copies >= 1 /\ chunk[Len(chunk)] = NL)
          => prepend = <<>>
    /\ (file = ScenarioFile /\ chunk_size = 4) =>
          /\ sink = SubSeq(ScenarioChunks, 1, copies)
          /\ reads <= 3
          /\ (pc = "read" => prepend = <<>>)
          /\ (pc = "done" => copies = 2 /\ reads = 3)

\* the scenario has run to its end
ScenarioDone ==
    /\ file = ScenarioFile
    /\ chunk_size = 4
    /\ pc = "done"
    /\ sink = ScenarioChunks

\* C6 as stated: with frequent newlines the number of chunks emitted before
\* termination is ceil(length(file) / chunk_size).
ChunkCountIsCeil ==
    (pc = "done" /\ FrequentNewlines)
        => copies = CeilDiv(Len(file), chunk_size)

\* C6 amended: with frequent newlines the number of chunks emitted before
\* termination is ceil((length(file) + carried) / chunk_size), where carried
\* is the total length of the carries handed over again; hence it is at
\* least ceil(length(file) / chunk_size).
ChunkCountCountsCarry ==
    (pc = "done" /\ FrequentNewlines) =>
        /\ copies = CeilDiv(Len(file) + Carried(Len(sink)), chunk_size)
        /\ copies >= CeilDiv(Len(file), chunk_size)

\* a run with frequent newlines has ended with more chunks than
\* ceil(length(file) / chunk_size)
MoreChunksThanCeil ==
    /\ pc = "done"
    /\ FrequentNewlines
    /\ Carried(Len(sink)) > 0
    /\ copies > CeilDiv(Len(file), chunk_size)

\* C7: the sink is never given an empty chunk; for an empty file nothing is
\* handed over and the loop ends on its first iteration.
NeverCopiesEmpty ==
    /\ \A i \in DOMAIN sink : sink[i] # Decorate(<<>>)
    /\ clipboard # Decorate(<<>>)
    /\ pc \in {"sleep", "carry"} => chunk # <<>>
    /\ file = <<>> =>
          /\ copies = 0
          /\ sink = <<>>
          /\ clipboard = <<>>
          /\ reads <= 1
          /\ pc \in {"open", "read", "test", "done"}

\* the empty file has been read once and the loop has ended
EmptyFileDone ==
    /\ file = <<>>
    /\ pc = "done"
    /\ reads = 1
    /\ copies = 0

\* C8: every copy is followed by exactly one pause of Delay units before
\* the carry is recomputed and before the next read or copy.
PauseAfterCopy ==
    /\ pc = "sleep" => sinceCopy = 0
    /\ (copies >= 1 /\ pc \in {"carry", "read", "test"})
          => sinceCopy = Delay

\* a second copy has happened
SecondCopy ==
    /\ copies >= 2
    /\ pc = "sleep"

\* C9: for a file without a newline that is longer than chunk_size every
\* chunk is the first chunk_size characters, the carry is that whole chunk,
\* later reads request zero characters, the read position stays at
\* chunk_size and the loop never ends.  In general a chunk repeats the
\* previous one without any new character only if it has no newline.
LongLineStalls ==
    /\ (NoNewline(file) /\ Len(file) > chunk_size) =>
          /\ pos <= chunk_size
          /\ pc # "done"
          /\ \A i \in DOMAIN sink :
                sink[i] = Decorate(SubSeq(file, 1, chunk_size))
          /\ (copies >= 1 /\ pc = "read") => prepend = chunk
          /\ (copies >= 1 /\ pc = "test") =>
                /\ nreq = 0
                /\ pos = chunk_size
                /\ Decorate(chunk) = clipboard
    /\ (/\ pc = "test"
        /\ copies >= 1
        /\ Len(chunk) = Len(prepend)
        /\ Decorate(chunk) = clipboard) => NoNewline(chunk)

\* the same chunk of a long line is about to be handed over a fourth time
StalledOnLongLine ==
    /\ NoNewline(file)
    /\ Len(file) > chunk_size
    /\ copies >= 3
    /\ pc = "test"
    /\ nreq = 0

\* C10: after a hand-off the carry is the part of the chunk after its last
\* newline, and every emitted chunk starts at file offset 0 or right after a
\* newline of the file.
ChunkStartsLine ==
    /\ (pc = "read" /\ copies >= 1) =>
          /\ NoNewline(prepend)
          /\ Len(prepend) <= Len(chunk)
          /\ prepend = Slice(chunk, Len(chunk) - Len(prepend))
          /\ Len(prepend) < Len(chunk)
                => chunk[Len(chunk) - Len(prepend)] = NL
    /\ (pc = "test" /\ chunk # <<>>) =>
          LET start == pos - Len(chunk)
          IN  /\ start >= 0
              /\ chunk = SubSeq(file, start + 1, pos)
              /\ (start = 0 \/ file[start] = NL)

\* a chunk that starts inside the file with a non-empty carry is about to be
\* handed over
ChunkAfterCarry ==
    /\ pc = "test"
    /\ chunk # <<>>
    /\ Len(prepend) > 0
    /\ pos - Len(chunk) > 0
    /\ pos > pos - Len(chunk) + Len(prepend)
====
